---- MODULE Spec2Model ----
(***************************************************************************)
(* KidTok front end: the video playback controller of ForYouScreen and    *)
(* the persisted settings store of SettingsProvider.                       *)
(*                                                                         *)
(* React semantics kept by the model:                                      *)
(*  - a handler reads the state of the render it was created in, so an    *)
(*    async function that resumes after an await still sees the values it *)
(*    captured (fields cp / intent / sel of the in-flight records);       *)
(*  - a setState takes effect for the next render; useRef contents        *)
(*    (videoRefs, videoStatusCache) are read and written in place;        *)
(*  - the performPlayback effect runs after a render in which             *)
(*    videoToPlayIntent changed.                                          *)
(* Every await is a step boundary: the code before it is one action, the  *)
(* continuation another.                                                   *)
(***************************************************************************)
EXTENDS Integers, Sequences, FiniteSets, Bags, TLC

\* ------------------------------------------------------------------ bounds
MaxTasks == 2
MaxPendingTaps == 1
MaxOps == 2
MaxPurchases == 1
CountCap == 3
MaxDepth == 3
MaxGuesses == 4

\* ------------------------------------------------------- program constants
MAX_RETRY_ATTEMPTS == 3
MAX_FREE_SELECTIONS == 5

NULL == "null"
VideoIds == {"v1", "v2", "v3", "v4", "v5", "v6"}

\* messages of the Error objects the controller records
MsgNotReady == "Player not ready."
MsgDataMissing == "Video data missing."
MsgTimeout == "Video loading timed out."
MsgLoadFailed == "Failed to load video content."
MsgOffline == "No internet connection."
MsgEngine == "engine error"
MsgPlayer == "Player error"
NoError == "none"

VARIABLES
  \* ForYouScreen state (useState)
  backendLoading, backendError, backendVideos,
  currentlyPlaying, videoToPlayIntent, videoErrors, retryAttempts,
  \* ForYouScreen refs (useRef)
  videoRefs, videoStatusCache,
  \* media engine handles, one per mounted Video component
  engine,
  \* in-flight async functions of ForYouScreen: fetchVideos, the
  \* performPlayback calls (a bag of records), the handleVideoPlayback calls
  fetchPc, tasks, taps,
  \* history: the play attempts of an item that failed in a row, or
  \* NotCounted in the specifications that do not follow it
  failedAttempts,
  \* SettingsProvider state (useState)
  isLoading, isPinSet, pin, restrictedMode, selectedVideos,
  \* AsyncStorage: the texts stored under the keys of the settings store
  storage,
  \* the AsyncStorage calls in flight, in the order they were issued, each
  \* with the async function that awaits it
  ops,
  \* history: how often each id was toggled (mod 2), and the PIN that was
  \* last set with success
  toggles, lastSetPin,
  \* PinSetupScreen (isLoading, alertVisible), PinEntryScreen (attempts,
  \* the title and the message of the HeartAlert shown), SettingsScreen (isLoading)
  setupLoading, setupAlertVisible, attempts, entryAlert, alertMessage,
  resetLoading,
  \* ForYouScreen purchase state, the handleStripePayment calls in flight
  hasSimulatedPremium, isSimulatingPurchase, purchases,
  \* the native alerts (Alert.alert) on display
  alerts,
  \* the navigation stack of the router, the user of RootLayoutNav, where
  \* handleLogout of LogoutButton is
  route, user, logoutPc,
  \* history: what the press of the Settings icon that began the visit found
  \* in AsyncStorage and whether verifyPin has returned true since; the
  \* complete entries in a row for which verifyPin returned false
  visit, wrongGuesses

pbVars == <<backendLoading, backendError, backendVideos, currentlyPlaying,
            videoToPlayIntent, videoErrors, retryAttempts, videoRefs,
            videoStatusCache, engine, fetchPc, tasks, taps, failedAttempts>>

storeVars == <<isLoading, isPinSet, pin, restrictedMode, selectedVideos,
               storage, ops>>

navVars == <<route, user, logoutPc, visit, wrongGuesses>>

scrVars == <<setupLoading, setupAlertVisible, attempts, entryAlert,
             alertMessage, resetLoading, navVars>>

stVars == <<storeVars, toggles, lastSetPin, scrVars>>

payVars == <<hasSimulatedPremium, isSimulatingPurchase, purchases, alerts>>

vars == <<pbVars, stVars, payVars>>

Min(a, b) == IF a < b THEN a ELSE b

\* ---------------------------------------------------------- media engine
\* AVPlaybackStatus of a handle, as getStatusAsync / a status callback gives it
StatusOf(h) == IF h = "playing" THEN "playing"
               ELSE IF h = "paused" THEN "paused" ELSE "notLoaded"

IsLoaded(status) == status \in {"playing", "paused"}

\* the playback state a handler works on: one record, updated in program
\* order by the operators below and committed at the end of the action
PB == [currentlyPlaying |-> currentlyPlaying,
       videoToPlayIntent |-> videoToPlayIntent,
       videoErrors |-> videoErrors,
       retryAttempts |-> retryAttempts,
       videoStatusCache |-> videoStatusCache,
       engine |-> engine,
       tasks |-> tasks,
       failedAttempts |-> failedAttempts]

Commit(s) ==
  \E r \in {s} :
    /\ currentlyPlaying' = r.currentlyPlaying
    /\ videoToPlayIntent' = r.videoToPlayIntent
    /\ videoErrors' = r.videoErrors
    /\ retryAttempts' = r.retryAttempts
    /\ videoStatusCache' = r.videoStatusCache
    /\ engine' = r.engine
    /\ tasks' = r.tasks
    /\ failedAttempts' = r.failedAttempts

\* history of the attempts: one more failure in a row, or a success
NotCounted == [id \in VideoIds |-> -1]

Counted(fa, videoId, failed) ==
  IF fa = NotCounted THEN fa
  ELSE [fa EXCEPT ![videoId] =
          IF failed THEN Min(@ + 1, MAX_RETRY_ATTEMPTS) ELSE 0]

\* handleVideoError(videoId, error) of the render whose currentlyPlaying was
\* cp and whose videoToPlayIntent was intent
handleVideoError(s, videoId, msg, cp, intent) ==
  [s EXCEPT !.videoErrors[videoId] = msg,
            !.retryAttempts[videoId] = Min(@ + 1, CountCap),
            !.currentlyPlaying = IF cp = videoId THEN NULL ELSE @,
            !.videoToPlayIntent = IF intent = videoId THEN NULL ELSE @,
            !.videoStatusCache[videoId] = "none"]

\* performPlayback up to its first await (unloadAsync), run by the effect of
\* the render in which videoToPlayIntent became s.videoToPlayIntent
NewTask(videoId, cp) ==
  [id |-> videoId, cp |-> cp, pc |-> "unload", fired |-> FALSE,
   superseded |-> FALSE]

\* the bag b with one copy of t replaced by u / taken out
Replace(b, t, u) == (b (-) SetToBag({t})) (+) SetToBag({u})
Without(b, t) == b (-) SetToBag({t})

\* history kept in the records: the attempts for another item than videoId
\* are superseded by a play request for videoId
SupersededBy(t, videoId) ==
  IF t.id # videoId THEN [t EXCEPT !.superseded = TRUE] ELSE t

Supersede(b, videoId) ==
  LET old == BagToSet(b)
      new == {SupersededBy(t, videoId) : t \in old}
  IN  [u \in new |->
         LET from == {t \in old : SupersededBy(t, videoId) = u}
             n[S \in SUBSET from] ==
               IF S = {} THEN 0
               ELSE LET x == CHOOSE x \in S : TRUE IN b[x] + n[S \ {x}]
         IN  n[from]]

performPlaybackUnchecked(s) ==
  LET videoId == s.videoToPlayIntent
      cp == s.currentlyPlaying
      s1 == [s EXCEPT !.videoErrors[videoId] = NoError]
  IN  [s1 EXCEPT !.currentlyPlaying = videoId,
                 !.engine[videoId] = "unloaded",
                 !.tasks = Supersede(@, videoId)
                             (+) SetToBag({NewTask(videoId, cp)})]

performPlayback(s) ==
  LET videoId == s.videoToPlayIntent
      cp == s.currentlyPlaying
      s1 == [s EXCEPT !.videoErrors[videoId] = NoError]
  IN  IF videoId \notin videoRefs
        THEN [handleVideoError(s1, videoId, MsgNotReady, cp, videoId)
                EXCEPT !.videoToPlayIntent = NULL,
                       !.failedAttempts = Counted(@, videoId, TRUE)]
      ELSE IF videoId \notin backendVideos
        THEN [handleVideoError(s1, videoId, MsgDataMissing, cp, videoId)
                EXCEPT !.videoToPlayIntent = NULL,
                       !.failedAttempts = Counted(@, videoId, TRUE)]
      ELSE [s1 EXCEPT !.currentlyPlaying = videoId,
                      !.engine[videoId] = "unloaded",
                      !.tasks = Supersede(@, videoId)
                                  (+) SetToBag({NewTask(videoId, cp)})]

\* the render after a handler: the effect runs iff videoToPlayIntent changed
\* to an id
AfterRender(s) ==
  IF s.videoToPlayIntent # videoToPlayIntent /\ s.videoToPlayIntent # NULL
    THEN performPlayback(s)
    ELSE s

\* whether a handler that may start performPlayback can run within the bound
Room == BagCardinality(tasks) < MaxTasks

\* no native alert is on display (an alert is modal: it takes every touch)
NoAlert == alerts = EmptyBag

\* the video list is rendered (not the loading or the error screen)
ListShown ==
  /\ NoAlert
  /\ ~isLoading /\ ~backendLoading /\ ~isSimulatingPurchase
  /\ backendError = NULL

\* renderVideoItem: what an item shows
hasError(id) == videoErrors[id] # NoError

canRetryOffByOne(id) == retryAttempts[id] <= MAX_RETRY_ATTEMPTS

canRetry(id) == retryAttempts[id] < MAX_RETRY_ATTEMPTS

\* ------------------------------------------------------------ fetchVideos
FetchNetwork(online) ==
  /\ fetchPc = "net"
  /\ IF online
       THEN /\ fetchPc' = "fetch"
            /\ UNCHANGED <<backendLoading, backendError>>
       ELSE /\ fetchPc' = "done"
            /\ backendError' = MsgOffline
            /\ backendLoading' = FALSE
  /\ UNCHANGED <<backendVideos, currentlyPlaying, videoToPlayIntent,
                 videoErrors, retryAttempts, videoRefs, videoStatusCache,
                 engine, tasks, taps, failedAttempts, stVars, payVars>>

FetchResult(ok) ==
  /\ fetchPc = "fetch"
  /\ fetchPc' = "done"
  /\ backendLoading' = FALSE
  /\ IF ok
       THEN /\ backendVideos' = VideoIds
            /\ videoRefs' = VideoIds
            /\ UNCHANGED backendError
       ELSE /\ backendVideos' = {}
            /\ backendError' = "fetch failed"
            /\ UNCHANGED videoRefs
  /\ UNCHANGED <<currentlyPlaying, videoToPlayIntent, videoErrors,
                 retryAttempts, videoStatusCache, engine, tasks,
                 taps, failedAttempts, stVars, payVars>>

\* frame of a playback handler
PlaybackFrame ==
  UNCHANGED <<backendLoading, backendError, backendVideos, videoRefs,
              fetchPc, stVars, payVars>>

\* ------------------------------------------------------- the items mounted
\* the list takes an item out of its window while no engine call on the
\* item is in flight: its Video component is unmounted, the ref callback
\* stores null, the engine handle is gone
ItemUnmount(id) ==
  /\ fetchPc = "done" /\ id \in videoRefs
  /\ \A t \in BagToSet(tasks) : t.id # id
  /\ videoRefs' = videoRefs \ {id}
  /\ engine' = [engine EXCEPT ![id] = "unloaded"]
  /\ UNCHANGED <<backendLoading, backendError, backendVideos,
                 currentlyPlaying, videoToPlayIntent, videoErrors,
                 retryAttempts, videoStatusCache, fetchPc, tasks, taps,
                 failedAttempts, stVars, payVars>>

\* the item is back in the window: the ref callback stores the new handle
ItemMount(id) ==
  /\ fetchPc = "done" /\ id \in backendVideos \ videoRefs
  /\ videoRefs' = videoRefs \cup {id}
  /\ UNCHANGED <<backendLoading, backendError, backendVideos,
                 currentlyPlaying, videoToPlayIntent, videoErrors,
                 retryAttempts, videoStatusCache, engine, fetchPc, tasks,
                 taps, failedAttempts, stVars, payVars>>

\* ---------------------------------------------------- handleVideoPlayback
\* the press of the play or pause control of an item, up to
\* await checkNetworkStatus()
TapStart(id) ==
  /\ ListShown /\ id \in videoRefs /\ ~hasError(id)
  /\ BagCardinality(taps) < MaxPendingTaps
  /\ taps' = taps (+) SetToBag({[id |-> id, cp |-> currentlyPlaying,
                                 intent |-> videoToPlayIntent]})
  /\ UNCHANGED <<currentlyPlaying, videoToPlayIntent, videoErrors,
                 retryAttempts, videoStatusCache, engine, tasks,
                 failedAttempts>>
  /\ PlaybackFrame

\* pauseAsync / playAsync on a handle: no effect unless it is loaded
Pause(e, id) == IF e[id] = "playing" THEN [e EXCEPT ![id] = "paused"] ELSE e
Play(e, id) == IF e[id] = "paused" THEN [e EXCEPT ![id] = "playing"] ELSE e

\* handleVideoPlayback after the connectivity check
TapBodyNoPause(s, t, online) ==
  IF ~online
    THEN handleVideoError(s, t.id, MsgOffline, t.cp, t.intent)
  ELSE IF t.cp = t.id /\ t.id \in videoRefs
    THEN LET status == IF s.videoStatusCache[t.id] # "none"
                         THEN s.videoStatusCache[t.id]
                         ELSE StatusOf(s.engine[t.id])
         IN  IF IsLoaded(status)
               THEN IF IsLoaded(StatusOf(s.engine[t.id]))
                      THEN [s EXCEPT !.videoStatusCache[t.id] = status,
                                     !.engine = IF status = "playing"
                                                  THEN Pause(@, t.id)
                                                  ELSE Play(@, t.id)]
                      ELSE \* the engine rejects the call on an unloaded handle
                           handleVideoError(
                             [s EXCEPT !.videoStatusCache[t.id] = status],
                             t.id, MsgEngine, t.cp, t.intent)
               ELSE [s EXCEPT !.videoToPlayIntent = t.id]
  ELSE [s EXCEPT !.videoToPlayIntent = t.id]

TapBody(s, t, online) ==
  IF ~online
    THEN handleVideoError(s, t.id, MsgOffline, t.cp, t.intent)
  ELSE IF t.cp = t.id /\ t.id \in videoRefs
    THEN LET status == IF s.videoStatusCache[t.id] # "none"
                         THEN s.videoStatusCache[t.id]
                         ELSE StatusOf(s.engine[t.id])
         IN  IF IsLoaded(status)
               THEN IF IsLoaded(StatusOf(s.engine[t.id]))
                      THEN [s EXCEPT !.videoStatusCache[t.id] = status,
                                     !.engine = IF status = "playing"
                                                  THEN Pause(@, t.id)
                                                  ELSE Play(@, t.id)]
                      ELSE \* the engine rejects the call on an unloaded handle
                           handleVideoError(
                             [s EXCEPT !.videoStatusCache[t.id] = status],
                             t.id, MsgEngine, t.cp, t.intent)
               ELSE [s EXCEPT !.videoToPlayIntent = t.id]
  ELSE [s EXCEPT !.engine = IF t.cp # NULL /\ t.cp \in videoRefs
                              THEN Pause(@, t.cp) ELSE @,
                 !.videoToPlayIntent = t.id]

TapContinue(t, online) ==
  /\ t \in BagToSet(taps)
  /\ Room
  /\ taps' = Without(taps, t)
  /\ Commit(AfterRender(TapBody(PB, t, online)))
  /\ PlaybackFrame

\* ------------------------------------------------------------- retryVideo
retryVideoKeepsCount(s, videoId) ==
  [s EXCEPT !.videoErrors[videoId] = NoError,
            !.videoToPlayIntent = videoId]

retryVideo(s, videoId) ==
  [s EXCEPT !.videoErrors[videoId] = NoError,
            !.retryAttempts[videoId] = 0,
            !.videoToPlayIntent = videoId]

\* the press of the Retry button of an item
RetryVideo(id) ==
  /\ ListShown /\ id \in videoRefs
  /\ hasError(id) /\ canRetry(id)
  /\ Room
  /\ Commit(AfterRender(retryVideo(PB, id)))
  /\ UNCHANGED taps
  /\ PlaybackFrame

\* ------------------------------------------- performPlayback, after awaits
\* finally { setVideoToPlayIntent(null) }: the async function t is over
\* (failed: whether the attempt ended in an error, for failedAttempts)
Finally(s, t, failed) ==
  [s EXCEPT !.videoToPlayIntent = NULL,
            !.tasks = Without(@, t),
            !.failedAttempts = Counted(@, t.id, failed \/ t.fired)]

\* await videoRef.unloadAsync() resolves; loadAsync is issued
UnloadDone(t) ==
  /\ t \in BagToSet(tasks) /\ t.pc = "unload"
  /\ tasks' = Replace(tasks, t, [t EXCEPT !.pc = "load"])
  /\ engine' = [engine EXCEPT ![t.id] = "loading"]
  /\ UNCHANGED <<currentlyPlaying, videoToPlayIntent, videoErrors,
                 retryAttempts, videoStatusCache, taps, failedAttempts>>
  /\ PlaybackFrame

\* the 12 s timer of an attempt fires before clearTimeout
TimeoutBody(s, t) ==
  LET s1 == handleVideoError(s, t.id, MsgTimeout, t.cp, t.id)
  IN  [s1 EXCEPT !.engine[t.id] = "unloaded",
                 !.tasks = Replace(@, t, [t EXCEPT !.fired = TRUE])]

LoadTimeout(t) ==
  /\ t \in BagToSet(tasks)
  /\ ~t.fired /\ t.pc \in {"unload", "load"}
  /\ Commit(TimeoutBody(PB, t))
  /\ UNCHANGED taps
  /\ PlaybackFrame

\* await videoRef.loadAsync(...) settles: it resolves with a status
\* ("playing", "paused", "notLoaded"), or rejects ("reject"), or rejects
\* after the Video's onError prop has reported the same failure
\* ("rejectOnError"; the onError handler is the one of the latest render)
LoadOutcomes == {"playing", "paused", "notLoaded", "reject", "rejectOnError"}

LoadBody(s, t, outcome) ==
  IF outcome = "rejectOnError"
    THEN Finally(handleVideoError(
                   handleVideoError([s EXCEPT !.engine[t.id] = "unloaded"],
                                    t.id, MsgPlayer, s.currentlyPlaying,
                                    s.videoToPlayIntent),
                   t.id, MsgEngine, t.cp, t.id), t, TRUE)
  ELSE IF outcome = "reject"
    THEN Finally(handleVideoError([s EXCEPT !.engine[t.id] = "unloaded"],
                                  t.id, MsgEngine, t.cp, t.id), t, TRUE)
  ELSE IF outcome = "notLoaded"
    THEN Finally(handleVideoError(
                   [s EXCEPT !.engine[t.id] = "unloaded",
                             !.videoStatusCache[t.id] = "notLoaded"],
                   t.id, MsgLoadFailed, t.cp, t.id), t, TRUE)
  ELSE IF outcome = "paused"
    THEN [s EXCEPT !.engine[t.id] = "playing",
                   !.videoStatusCache[t.id] = "paused",
                   !.tasks = Replace(@, t, [t EXCEPT !.pc = "play"])]
  ELSE Finally([s EXCEPT !.engine[t.id] = "playing",
                         !.videoStatusCache[t.id] = "playing"], t, FALSE)

LoadResolve(t, outcome) ==
  /\ t \in BagToSet(tasks) /\ t.pc = "load"
  /\ Commit(LoadBody(PB, t, outcome))
  /\ UNCHANGED taps
  /\ PlaybackFrame

\* await videoRef.playAsync() settles
PlayBody(s, t, ok) ==
  IF ok THEN Finally(s, t, FALSE)
  ELSE Finally(handleVideoError([s EXCEPT !.engine[t.id] = "paused"],
                                t.id, MsgEngine, t.cp, t.id), t, TRUE)

PlayResolve(t, ok) ==
  /\ t \in BagToSet(tasks) /\ t.pc = "play"
  /\ Commit(PlayBody(PB, t, ok))
  /\ UNCHANGED taps
  /\ PlaybackFrame

\* ------------------------------------------------- Video component events
\* onPlaybackStatusUpdate with the handle's present status
StatusUpdate(id) ==
  /\ id \in videoRefs
  /\ videoStatusCache[id] # StatusOf(engine[id])
  /\ videoStatusCache' = [videoStatusCache EXCEPT ![id] = StatusOf(engine[id])]
  /\ UNCHANGED <<currentlyPlaying, videoToPlayIntent, videoErrors,
                 retryAttempts, engine, tasks, taps, failedAttempts>>
  /\ PlaybackFrame

\* onPlaybackStatusUpdate with didJustFinish: the content played to its end
FinishBodyKeepsPlaying(s, id) ==
  [s EXCEPT !.videoStatusCache[id] = "paused", !.engine[id] = "paused"]

FinishBody(s, id) ==
  LET s1 == [s EXCEPT !.videoStatusCache[id] = "paused",
                      !.engine[id] = "paused"]
  IN  IF id = s.currentlyPlaying
        THEN [s1 EXCEPT !.engine[id] = "unloaded", !.currentlyPlaying = NULL]
        ELSE s1

DidJustFinish(id) ==
  /\ id \in videoRefs /\ engine[id] = "playing"
  /\ Commit(FinishBody(PB, id))
  /\ UNCHANGED taps
  /\ PlaybackFrame

\* =========================================================== AsyncStorage
\* storage maps the keys that are present to their texts. The text of
\* parentPin and of restrictedMode is a string; the text of selectedVideos is
\* the sequence of its tokens.
Has(st, key) == key \in DOMAIN st

setItem(st, key, text) ==
  [k \in DOMAIN st \cup {key} |-> IF k = key THEN text ELSE st[k]]

multiRemove(st, keys) == [k \in DOMAIN st \ keys |-> st[k]]

\* JSON.stringify of an array of ids, JSON.parse of a text
JSONstringify(a) == <<"[">> \o a \o <<"]">>

IsJSONArray(text) ==
  Len(text) >= 2 /\ text[1] = "[" /\ text[Len(text)] = "]"

JSONparse(text) == SubSeq(text, 2, Len(text) - 1)

\* String(b) of a boolean
StringCapital(b) == IF b THEN "True" ELSE "False"

String(b) == IF b THEN "true" ELSE "false"

Range(a) == {a[i] : i \in DOMAIN a}

\* an AsyncStorage call in flight and the function that awaits it; a write
\* of a toggle also remembers the value that was in memory before the toggle
\* (history)
WriteOp(op, arg, before) == [op |-> op, arg |-> arg, before |-> before]

Op(op, arg) == WriteOp(op, arg, NULL)

OpRoom == Len(ops) < MaxOps

\* ======================================================== SettingsProvider
\* ------------------------------------------------------------ loadSettings
\* the frame of a step of the store
StoreFrame == UNCHANGED <<pbVars, payVars>>

\* getItem('parentPin') settles
LoadPin(ok) ==
  /\ ops # <<>> /\ Head(ops).op = "load" /\ Head(ops).arg = "parentPin"
  /\ IF ok
       THEN /\ IF Has(storage, "parentPin") /\ storage["parentPin"] # ""
                 THEN /\ pin' = storage["parentPin"]
                      /\ isPinSet' = TRUE
                      /\ lastSetPin' = storage["parentPin"]
                 ELSE UNCHANGED <<pin, isPinSet, lastSetPin>>
            /\ ops' = Append(Tail(ops), Op("load", "restrictedMode"))
            /\ UNCHANGED isLoading
       ELSE /\ isLoading' = FALSE
            /\ ops' = Tail(ops)
            /\ UNCHANGED <<pin, isPinSet, lastSetPin>>
  /\ UNCHANGED <<restrictedMode, selectedVideos, storage, toggles, scrVars>>
  /\ StoreFrame

\* getItem('restrictedMode') settles
LoadMode(ok) ==
  /\ ops # <<>> /\ Head(ops).op = "load" /\ Head(ops).arg = "restrictedMode"
  /\ IF ok
       THEN /\ restrictedMode' = (Has(storage, "restrictedMode")
                                  /\ storage["restrictedMode"] = "true")
            /\ ops' = Append(Tail(ops), Op("load", "selectedVideos"))
            /\ UNCHANGED isLoading
       ELSE /\ isLoading' = FALSE
            /\ ops' = Tail(ops)
            /\ UNCHANGED restrictedMode
  /\ UNCHANGED <<pin, isPinSet, selectedVideos, storage, toggles, lastSetPin,
                 scrVars>>
  /\ StoreFrame

\* getItem('selectedVideos') settles; JSON.parse throws on a text that is
\* not JSON, and the catch leaves the selection as it is
LoadVideos(ok) ==
  /\ ops # <<>> /\ Head(ops).op = "load" /\ Head(ops).arg = "selectedVideos"
  /\ LET present == Has(storage, "selectedVideos")
                    /\ storage["selectedVideos"] # <<>>
         loaded == IF ~present THEN <<>>
                   ELSE JSONparse(storage["selectedVideos"])
     IN  IF ok /\ (present => IsJSONArray(storage["selectedVideos"]))
           THEN /\ selectedVideos' = loaded
                /\ toggles' = [id \in VideoIds |->
                                 IF id \in Range(loaded) THEN 1 ELSE 0]
           ELSE UNCHANGED <<selectedVideos, toggles>>
  /\ isLoading' = FALSE
  /\ ops' = Tail(ops)
  /\ UNCHANGED <<pin, isPinSet, restrictedMode, storage, lastSetPin, scrVars>>
  /\ StoreFrame

\* what loadSettings leaves in a store that was just constructed when every
\* read of the storage st resolves
loadSettings(st) ==
  LET storedPin == Has(st, "parentPin") /\ st["parentPin"] # ""
      storedVideos == Has(st, "selectedVideos") /\ st["selectedVideos"] # <<>>
  IN  [pin |-> IF storedPin THEN st["parentPin"] ELSE NULL,
       isPinSet |-> storedPin,
       restrictedMode |-> Has(st, "restrictedMode")
                          /\ st["restrictedMode"] = "true",
       selectedVideos |-> IF storedVideos /\ IsJSONArray(st["selectedVideos"])
                            THEN JSONparse(st["selectedVideos"])
                            ELSE <<>>]

\* ----------------------------------------------------------------- savePin
\* savePin(newPin) after its await: ok is whether setItem resolved. The
\* result is the state it leaves and the value it returns.
savePinLeaky(ok, newPin) ==
  [pin |-> newPin, isPinSet |-> TRUE, returns |-> ok]

savePinNoFlag(ok, newPin) ==
  IF ok THEN [pin |-> newPin, isPinSet |-> isPinSet, returns |-> TRUE]
        ELSE [pin |-> pin, isPinSet |-> isPinSet, returns |-> FALSE]

savePin(ok, newPin) ==
  IF ok THEN [pin |-> newPin, isPinSet |-> TRUE, returns |-> TRUE]
        ELSE [pin |-> pin, isPinSet |-> isPinSet, returns |-> FALSE]

\* verifyPin(enteredPin)
verifyPinLoose(enteredPin) ==
  enteredPin = pin \/ (pin = NULL /\ enteredPin = "")

verifyPin(enteredPin) == enteredPin = pin

\* a native alert: its title (its message, where the title is "Error" or
\* "Success"), and what the handlers of its buttons captured
Alert(title, id, sel) == [title |-> title, id |-> id, sel |-> sel]

Notice(title) == Alert(title, NULL, <<>>)

Show(a) == alerts' = alerts (+) SetToBag({a})

Close(a) == alerts' = alerts (-) SetToBag({a})

\* the alerts whose only button changes nothing of the state followed here
NoticeTitles ==
  {"Missing Input", "PIN Too Short", "PIN Mismatch", "Could not set PIN.",
   "Failed to reset settings.", "Failed to clear app data.",
   "No internet connection.", "Payment Failed", "Payment Error"}

DismissNotice(a) ==
  /\ a \in BagToSet(alerts) /\ a.title \in NoticeTitles
  /\ Close(a)
  /\ UNCHANGED <<pbVars, stVars, hasSimulatedPremium, isSimulatingPurchase,
                 purchases>>

\* ------------------------------------------------------------- the router
\* the stack of screens, the last one on display; NoRoute in the
\* specifications that do not follow the navigation, where every screen
\* counts as on display
NoRoute == <<>>

OnScreen(name) ==
  IF route = NoRoute THEN TRUE ELSE route[Len(route)] = name

StackRoom == Len(route) < MaxDepth

\* router.push, router.replace, router.back
push(r, name) == IF r = NoRoute THEN r ELSE Append(r, name)

replace(r, name) == IF r = NoRoute THEN r ELSE [r EXCEPT ![Len(r)] = name]

back(r) == IF Len(r) <= 1 THEN r ELSE SubSeq(r, 1, Len(r) - 1)

\* the redirect effect of RootLayoutNav once the auth listener has answered,
\* run by the render that follows a change of the route or of the user
RedirectEffect(r, u) ==
  IF r = NoRoute THEN r
  ELSE IF u # NULL /\ r[Len(r)] = "login" THEN replace(r, "(tabs)")
  ELSE IF u = NULL /\ r[Len(r)] = "(tabs)" THEN replace(r, "login")
  ELSE r

\* history: no visit of the settings has begun
NoVisit == [persisted |-> FALSE, verified |-> FALSE]

\* AsyncStorage holds a parent PIN
PinPersisted == Has(storage, "parentPin") /\ storage["parentPin"] # ""

\* ---------------------------------------------------------- SettingsButton
\* the press of the Settings icon of the header of the tabs (handlePress),
\* which is on display once the auth listener has answered, whatever
\* loadSettings has done: with a PIN set the entry screen is pushed, else the
\* alert is shown
SettingsButton ==
  /\ NoAlert /\ OnScreen("(tabs)") /\ StackRoom
  /\ IF isPinSet
       THEN route' = push(route, "PinEntry") /\ UNCHANGED alerts
       ELSE Show(Alert("Setup Required", NULL, <<>>)) /\ UNCHANGED route
  /\ visit' = IF route = NoRoute THEN visit
              ELSE [persisted |-> PinPersisted, verified |-> FALSE]
  /\ UNCHANGED <<storeVars, toggles, lastSetPin, setupLoading,
                 setupAlertVisible, attempts, entryAlert, alertMessage,
                 resetLoading, user, logoutPc, wrongGuesses>>
  /\ UNCHANGED <<pbVars, hasSimulatedPremium, isSimulatingPurchase,
                 purchases>>

\* "Cancel" of that alert
SetupRequiredClose(a) ==
  /\ a \in BagToSet(alerts) /\ a.title = "Setup Required"
  /\ Close(a)
  /\ UNCHANGED <<pbVars, stVars, hasSimulatedPremium, isSimulatingPurchase,
                 purchases>>

\* "Set PIN Now" of that alert: the setup screen is pushed
SetPinNow(a) ==
  /\ a \in BagToSet(alerts) /\ a.title = "Setup Required"
  /\ Close(a)
  /\ route' = push(route, "PinSetup")
  /\ UNCHANGED <<storeVars, toggles, lastSetPin, setupLoading,
                 setupAlertVisible, attempts, entryAlert, alertMessage,
                 resetLoading, user, logoutPc, visit, wrongGuesses>>
  /\ UNCHANGED <<pbVars, hasSimulatedPremium, isSimulatingPurchase,
                 purchases>>

\* ------------------------------------------------------------ LogoutButton
\* the press of the logout icon of the header of the tabs: handleLogout up
\* to await signOut(auth)
LogoutButton ==
  /\ NoAlert /\ route # NoRoute /\ OnScreen("(tabs)")
  /\ logoutPc = "idle"
  /\ logoutPc' = "signOut"
  /\ UNCHANGED <<storeVars, toggles, lastSetPin, setupLoading,
                 setupAlertVisible, attempts, entryAlert, alertMessage,
                 resetLoading, route, user, visit, wrongGuesses>>
  /\ StoreFrame

\* signOut settles: the auth listener sets the user and the redirect effect
\* runs, then handleLogout replaces the route; a rejection is not caught
SignOutDone(ok) ==
  /\ logoutPc = "signOut"
  /\ logoutPc' = "idle"
  /\ IF ok
       THEN /\ user' = NULL
            /\ route' = replace(RedirectEffect(route, NULL), "login")
       ELSE UNCHANGED <<route, user>>
  /\ UNCHANGED <<storeVars, toggles, lastSetPin, setupLoading,
                 setupAlertVisible, attempts, entryAlert, alertMessage,
                 resetLoading, visit, wrongGuesses>>
  /\ StoreFrame

\* ---------------------------------------------------------- PinSetupScreen
\* the texts a PIN field can hold of those that are typed (maxLength)
TextInput(texts) == {t \in texts : Len(t) <= 6}

\* the press of "Set PIN" with the two fields holding newPin and confirmPin
handleSetPinAnyLength(newPin, confirmPin) ==
  /\ NoAlert /\ OnScreen("PinSetup") /\ ~setupLoading /\ ~setupAlertVisible
  /\ IF newPin = "" \/ confirmPin = ""
       THEN Show(Notice("Missing Input")) /\ UNCHANGED <<ops, setupLoading>>
     ELSE IF newPin # confirmPin
       THEN Show(Notice("PIN Mismatch")) /\ UNCHANGED <<ops, setupLoading>>
     ELSE /\ OpRoom
          /\ setupLoading' = TRUE
          /\ ops' = Append(ops, Op("savePin", newPin))
          /\ UNCHANGED alerts
  /\ UNCHANGED <<isLoading, isPinSet, pin, restrictedMode, selectedVideos,
                 storage, toggles, lastSetPin, setupAlertVisible, attempts,
                 entryAlert, alertMessage, resetLoading, navVars>>
  /\ UNCHANGED <<pbVars, hasSimulatedPremium, isSimulatingPurchase, purchases>>

handleSetPin(newPin, confirmPin) ==
  /\ NoAlert /\ OnScreen("PinSetup") /\ ~setupLoading /\ ~setupAlertVisible
  /\ IF newPin = "" \/ confirmPin = ""
       THEN Show(Notice("Missing Input")) /\ UNCHANGED <<ops, setupLoading>>
     ELSE IF Len(newPin) < 4
       THEN Show(Notice("PIN Too Short")) /\ UNCHANGED <<ops, setupLoading>>
     ELSE IF newPin # confirmPin
       THEN Show(Notice("PIN Mismatch")) /\ UNCHANGED <<ops, setupLoading>>
     ELSE /\ OpRoom
          /\ setupLoading' = TRUE
          /\ ops' = Append(ops, Op("savePin", newPin))
          /\ UNCHANGED alerts
  /\ UNCHANGED <<isLoading, isPinSet, pin, restrictedMode, selectedVideos,
                 storage, toggles, lastSetPin, setupAlertVisible, attempts,
                 entryAlert, alertMessage, resetLoading, navVars>>
  /\ UNCHANGED <<pbVars, hasSimulatedPremium, isSimulatingPurchase, purchases>>

\* setItem('parentPin', newPin) settles: the rest of savePin, then the rest
\* of handleSetPin
SavePinDone(ok) ==
  /\ ops # <<>> /\ Head(ops).op = "savePin"
  /\ LET newPin == Head(ops).arg
         r == savePin(ok, newPin)
     IN  /\ storage' = IF ok THEN setItem(storage, "parentPin", newPin)
                             ELSE storage
         /\ pin' = r.pin
         /\ isPinSet' = r.isPinSet
         /\ lastSetPin' = IF ok THEN newPin ELSE lastSetPin
         /\ IF r.returns
              THEN setupAlertVisible' = TRUE /\ UNCHANGED alerts
              ELSE /\ Show(Notice("Could not set PIN."))
                   /\ UNCHANGED setupAlertVisible
  /\ setupLoading' = FALSE
  /\ ops' = Tail(ops)
  /\ UNCHANGED <<isLoading, restrictedMode, selectedVideos, toggles, attempts,
                 entryAlert, alertMessage, resetLoading, navVars>>
  /\ UNCHANGED <<pbVars, hasSimulatedPremium, isSimulatingPurchase, purchases>>

\* the HeartAlert of the setup screen is closed: the Settings screen
\* replaces the setup screen
SetupAlertClose ==
  /\ NoAlert /\ setupAlertVisible
  /\ setupAlertVisible' = FALSE
  /\ route' = replace(route, "Settings")
  /\ UNCHANGED <<storeVars, toggles, lastSetPin, setupLoading, attempts,
                 entryAlert, alertMessage, resetLoading, user, logoutPc,
                 visit, wrongGuesses>>
  /\ StoreFrame

\* ---------------------------------------------------------- PinEntryScreen
\* the texts the boxes of OtpInput can hold of those that are typed: the
\* component is given no inputCount and shows its four boxes
OtpInput(texts) == {t \in texts : Len(t) <= 4}

\* the text of a count of one digit
Decimal(n) == <<"0", "1", "2", "3", "4", "5", "6", "7", "8", "9">>[n + 1]

\* history: a call of verifyPin has returned result
Guessed(result) ==
  /\ visit' = IF result /\ route # NoRoute
                THEN [visit EXCEPT !.verified = TRUE]
                ELSE visit
  /\ wrongGuesses' = IF route = NoRoute THEN wrongGuesses
                     ELSE IF result THEN 0
                     ELSE Min(wrongGuesses + 1, MaxGuesses)

\* the press of "Unlock" with the field holding enteredPin
handleVerifyPinCountsShort(enteredPin) ==
  /\ NoAlert /\ OnScreen("PinEntry") /\ entryAlert = "none"
  /\ IF verifyPin(enteredPin)
       THEN /\ entryAlert' = "Success!"
            /\ alertMessage' = <<"PIN verified successfully.">>
            /\ UNCHANGED attempts
            /\ Guessed(TRUE)
     ELSE /\ attempts' = attempts + 1
          /\ entryAlert' = IF attempts + 1 >= 3 THEN "Too Many Attempts"
                                                ELSE "Incorrect PIN"
          /\ alertMessage' =
               IF attempts + 1 >= 3
                 THEN <<"Please try again later.">>
                 ELSE <<"You have ", Decimal(3 - (attempts + 1)),
                        " attempts remaining.">>
          /\ Guessed(FALSE)
  /\ UNCHANGED <<storeVars, toggles, lastSetPin, setupLoading,
                 setupAlertVisible, resetLoading, route, user, logoutPc>>
  /\ StoreFrame

handleVerifyPin(enteredPin) ==
  /\ NoAlert /\ OnScreen("PinEntry") /\ entryAlert = "none"
  /\ IF Len(enteredPin) < 4
       THEN /\ entryAlert' = "Invalid PIN"
            /\ alertMessage' = <<"Please enter a complete 4-digit PIN.">>
            /\ UNCHANGED <<attempts, visit, wrongGuesses>>
     ELSE IF verifyPin(enteredPin)
       THEN /\ entryAlert' = "Success!"
            /\ alertMessage' = <<"PIN verified successfully.">>
            /\ UNCHANGED attempts
            /\ Guessed(TRUE)
     ELSE /\ attempts' = attempts + 1
          /\ entryAlert' = IF attempts + 1 >= 3 THEN "Too Many Attempts"
                                                ELSE "Incorrect PIN"
          /\ alertMessage' =
               IF attempts + 1 >= 3
                 THEN <<"Please try again later.">>
                 ELSE <<"You have ", Decimal(3 - (attempts + 1)),
                        " attempts remaining.">>
          /\ Guessed(FALSE)
  /\ UNCHANGED <<storeVars, toggles, lastSetPin, setupLoading,
                 setupAlertVisible, resetLoading, route, user, logoutPc>>
  /\ StoreFrame

\* the HeartAlert of the entry screen is closed; the screen is left after a
\* success (Settings replaces it) and after the third failure (back), and
\* its state goes with it
handleAlertClose ==
  /\ NoAlert /\ entryAlert # "none"
  /\ entryAlert' = "none" /\ alertMessage' = <<>>
  /\ attempts' = IF entryAlert = "Success!" \/ attempts >= 3 THEN 0
                                                             ELSE attempts
  /\ route' = IF entryAlert = "Success!" THEN replace(route, "Settings")
              ELSE IF attempts >= 3 THEN back(route)
              ELSE route
  /\ UNCHANGED <<storeVars, toggles, lastSetPin, setupLoading,
                 setupAlertVisible, resetLoading, user, logoutPc, visit,
                 wrongGuesses>>
  /\ StoreFrame

\* "Cancel" of the entry screen: router.back(), the screen is left
PinEntryCancel ==
  /\ NoAlert /\ route # NoRoute /\ OnScreen("PinEntry")
  /\ entryAlert = "none"
  /\ route' = back(route)
  /\ attempts' = 0
  /\ UNCHANGED <<storeVars, toggles, lastSetPin, setupLoading,
                 setupAlertVisible, entryAlert, alertMessage, resetLoading,
                 user, logoutPc, visit, wrongGuesses>>
  /\ StoreFrame

\* ---------------------------------------------------------- SettingsScreen
\* "Change Parent PIN": the setup screen is pushed
ChangePin ==
  /\ NoAlert /\ route # NoRoute /\ OnScreen("Settings") /\ StackRoom
  /\ route' = push(route, "PinSetup")
  /\ UNCHANGED <<storeVars, toggles, lastSetPin, setupLoading,
                 setupAlertVisible, attempts, entryAlert, alertMessage,
                 resetLoading, user, logoutPc, visit, wrongGuesses>>
  /\ StoreFrame

\* the Switch of restricted mode: toggleRestrictedMode up to its await
toggleRestrictedMode ==
  /\ NoAlert /\ OnScreen("Settings") /\ ~resetLoading /\ OpRoom
  /\ restrictedMode' = ~restrictedMode
  /\ ops' = Append(ops, WriteOp("setMode", String(~restrictedMode),
                                restrictedMode))
  /\ UNCHANGED <<isLoading, isPinSet, pin, selectedVideos, storage, toggles,
                 lastSetPin, scrVars>>
  /\ StoreFrame

\* setItem('restrictedMode', ...) settles; nothing awaits the promise
ModeWriteDone(ok) ==
  /\ ops # <<>> /\ Head(ops).op = "setMode"
  /\ storage' = IF ok THEN setItem(storage, "restrictedMode", Head(ops).arg)
                      ELSE storage
  /\ ops' = Tail(ops)
  /\ UNCHANGED <<isLoading, isPinSet, pin, restrictedMode, selectedVideos,
                 toggles, lastSetPin, scrVars>>
  /\ StoreFrame

\* "Reset Settings Only": handleResetSettings up to await clearSettings()
handleResetSettings ==
  /\ NoAlert /\ OnScreen("Settings") /\ ~resetLoading /\ OpRoom
  /\ resetLoading' = TRUE
  /\ ops' = Append(ops, Op("clear", "reset"))
  /\ UNCHANGED <<isLoading, isPinSet, pin, restrictedMode, selectedVideos,
                 storage, toggles, lastSetPin, setupLoading,
                 setupAlertVisible, attempts, entryAlert, alertMessage,
                 navVars>>
  /\ StoreFrame

\* "Clear All App Data": handleClearAppData asks for a confirmation
handleClearAppData ==
  /\ NoAlert /\ OnScreen("Settings") /\ ~resetLoading
  /\ resetLoading' = TRUE
  /\ Show(Notice("Are you sure?"))
  /\ UNCHANGED <<storeVars, toggles, lastSetPin, setupLoading,
                 setupAlertVisible, attempts, entryAlert, alertMessage,
                 navVars>>
  /\ UNCHANGED <<pbVars, hasSimulatedPremium, isSimulatingPurchase, purchases>>

ClearDataCancel ==
  /\ Notice("Are you sure?") \in BagToSet(alerts)
  /\ Close(Notice("Are you sure?"))
  /\ resetLoading' = FALSE
  /\ UNCHANGED <<storeVars, toggles, lastSetPin, setupLoading,
                 setupAlertVisible, attempts, entryAlert, alertMessage,
                 navVars>>
  /\ UNCHANGED <<pbVars, hasSimulatedPremium, isSimulatingPurchase, purchases>>

ClearDataConfirm ==
  /\ Notice("Are you sure?") \in BagToSet(alerts)
  /\ OpRoom
  /\ Close(Notice("Are you sure?"))
  /\ ops' = Append(ops, Op("clear", "clearData"))
  /\ UNCHANGED <<isLoading, isPinSet, pin, restrictedMode, selectedVideos,
                 storage, toggles, lastSetPin, scrVars>>
  /\ UNCHANGED <<pbVars, hasSimulatedPremium, isSimulatingPurchase, purchases>>

\* "OK" of the alert of handleResetSettings: the tabs replace the screen
ResetOk ==
  /\ Notice("All settings have been reset.") \in BagToSet(alerts)
  /\ Close(Notice("All settings have been reset."))
  /\ route' = RedirectEffect(replace(route, "(tabs)"), user)
  /\ UNCHANGED <<storeVars, toggles, lastSetPin, setupLoading,
                 setupAlertVisible, attempts, entryAlert, alertMessage,
                 resetLoading, user, logoutPc, visit, wrongGuesses>>
  /\ UNCHANGED <<pbVars, hasSimulatedPremium, isSimulatingPurchase, purchases>>

\* clearSettings() after its await: the state it sets once multiRemove has
\* resolved
clearSettingsKeepsFlag ==
  [pin |-> NULL, isPinSet |-> isPinSet, restrictedMode |-> FALSE,
   selectedVideos |-> <<>>]

clearSettingsKeepsSelection ==
  [pin |-> NULL, isPinSet |-> FALSE, restrictedMode |-> FALSE,
   selectedVideos |-> selectedVideos]

clearSettings ==
  [pin |-> NULL, isPinSet |-> FALSE, restrictedMode |-> FALSE,
   selectedVideos |-> <<>>]

\* multiRemove settles: the rest of clearSettings, then the rest of the
\* handler that awaits it
ClearDone(ok) ==
  /\ ops # <<>> /\ Head(ops).op = "clear"
  /\ IF ok
       THEN /\ storage' = multiRemove(storage, {"parentPin", "restrictedMode",
                                                "selectedVideos"})
            /\ pin' = clearSettings.pin
            /\ isPinSet' = clearSettings.isPinSet
            /\ restrictedMode' = clearSettings.restrictedMode
            /\ selectedVideos' = clearSettings.selectedVideos
            /\ toggles' = [id \in VideoIds |-> 0]
            /\ lastSetPin' = NULL
            /\ IF Head(ops).arg = "reset"
                 THEN /\ Show(Notice("All settings have been reset."))
                      /\ UNCHANGED route
                 ELSE /\ route' = RedirectEffect(replace(route, "login"),
                                                 user)
                      /\ UNCHANGED alerts
       ELSE /\ Show(Notice(IF Head(ops).arg = "reset"
                             THEN "Failed to reset settings."
                             ELSE "Failed to clear app data."))
            /\ UNCHANGED <<storage, pin, isPinSet, restrictedMode,
                           selectedVideos, toggles, lastSetPin, route>>
  /\ resetLoading' = FALSE
  /\ ops' = Tail(ops)
  /\ UNCHANGED <<isLoading, setupLoading, setupAlertVisible, attempts,
                 entryAlert, alertMessage, user, logoutPc, visit,
                 wrongGuesses>>
  /\ UNCHANGED <<pbVars, hasSimulatedPremium, isSimulatingPurchase, purchases>>

\* ================================================ ForYouScreen: selection
\* toggleVideoSelectionInContext(videoId) of the render whose selectedVideos
\* was sel: the new selection
toggleVideoSelectionInContextAddOnly(sel, videoId) ==
  IF videoId \in Range(sel) THEN sel ELSE Append(sel, videoId)

toggleVideoSelectionInContext(sel, videoId) ==
  IF videoId \in Range(sel)
    THEN SelectSeq(sel, LAMBDA id : id # videoId)
    ELSE Append(sel, videoId)

\* the call: the state is set, then the write is issued
ToggleCall(sel, videoId) ==
  LET newSelectedVideos == toggleVideoSelectionInContext(sel, videoId)
  IN  /\ OpRoom
      /\ selectedVideos' = newSelectedVideos
      /\ ops' = Append(ops, WriteOp("setVideos",
                                    JSONstringify(newSelectedVideos),
                                    selectedVideos))
      /\ toggles' = [toggles EXCEPT ![videoId] = 1 - @]

\* the filter effect of ForYouScreen: the items the list displays once the
\* render and its effects are done
filteredVideosUnfiltered == backendVideos

filteredVideos ==
  IF restrictedMode
    THEN {v \in backendVideos : v \in Range(selectedVideos)}
    ELSE backendVideos

\* the press of the selection control of an item
handleToggleVideoSelectionSixFree(videoId) ==
  /\ ListShown /\ videoId \in filteredVideos
  /\ ~isSimulatingPurchase
  /\ IF /\ videoId \notin Range(selectedVideos)
        /\ Len(selectedVideos) > MAX_FREE_SELECTIONS
        /\ ~hasSimulatedPremium
       THEN /\ Show(Alert("Unlock Premium", videoId, selectedVideos))
            /\ UNCHANGED <<selectedVideos, ops, toggles>>
       ELSE /\ ToggleCall(selectedVideos, videoId)
            /\ UNCHANGED alerts
  /\ UNCHANGED <<isLoading, isPinSet, pin, restrictedMode, storage,
                 lastSetPin, scrVars>>
  /\ UNCHANGED <<pbVars, hasSimulatedPremium, isSimulatingPurchase, purchases>>

handleToggleVideoSelection(videoId) ==
  /\ ListShown /\ videoId \in filteredVideos
  /\ ~isSimulatingPurchase
  /\ IF /\ videoId \notin Range(selectedVideos)
        /\ Len(selectedVideos) >= MAX_FREE_SELECTIONS
        /\ ~hasSimulatedPremium
       THEN /\ Show(Alert("Unlock Premium", videoId, selectedVideos))
            /\ UNCHANGED <<selectedVideos, ops, toggles>>
       ELSE /\ ToggleCall(selectedVideos, videoId)
            /\ UNCHANGED alerts
  /\ UNCHANGED <<isLoading, isPinSet, pin, restrictedMode, storage,
                 lastSetPin, scrVars>>
  /\ UNCHANGED <<pbVars, hasSimulatedPremium, isSimulatingPurchase, purchases>>

\* setItem('selectedVideos', ...) settles; nothing awaits the promise
VideosWriteDone(ok) ==
  /\ ops # <<>> /\ Head(ops).op = "setVideos"
  /\ storage' = IF ok THEN setItem(storage, "selectedVideos", Head(ops).arg)
                      ELSE storage
  /\ ops' = Tail(ops)
  /\ UNCHANGED <<isLoading, isPinSet, pin, restrictedMode, selectedVideos,
                 toggles, lastSetPin, scrVars>>
  /\ StoreFrame

\* "Not Now"
UnlockNotNow(a) ==
  /\ a \in BagToSet(alerts) /\ a.title = "Unlock Premium"
  /\ Close(a)
  /\ UNCHANGED <<pbVars, stVars, hasSimulatedPremium, isSimulatingPurchase,
                 purchases>>

\* "Unlock Premium": handleStripePayment up to await checkNetworkStatus()
UnlockPremium(a) ==
  /\ a \in BagToSet(alerts) /\ a.title = "Unlock Premium"
  /\ BagCardinality(purchases) < MaxPurchases
  /\ Close(a)
  /\ purchases' = purchases (+) SetToBag({[pc |-> "net", id |-> a.id,
                                           sel |-> a.sel]})
  /\ UNCHANGED <<pbVars, stVars, hasSimulatedPremium, isSimulatingPurchase>>

\* "Unlock Premium" of a second alert, pressed while an earlier call of
\* handleStripePayment still awaits checkNetworkStatus() (the list is on
\* display until setIsSimulatingPurchase(true))
UnlockPremiumTwice(a) ==
  /\ a \in BagToSet(alerts) /\ a.title = "Unlock Premium"
  /\ \E p \in BagToSet(purchases) : p.pc = "net"
  /\ BagCardinality(purchases) <= MaxPurchases
  /\ Close(a)
  /\ purchases' = purchases (+) SetToBag({[pc |-> "net", id |-> a.id,
                                           sel |-> a.sel]})
  /\ UNCHANGED <<pbVars, stVars, hasSimulatedPremium, isSimulatingPurchase>>

\* ------------------------------------------------------ handleStripePayment
\* the call p moves on to its next await
Await(p, pc) == purchases' = Replace(purchases, p, [p EXCEPT !.pc = pc])

\* the call p returns or throws: the finally block has run
Finished(p) ==
  /\ purchases' = Without(purchases, p)
  /\ isSimulatingPurchase' = FALSE

\* the catch block
PaymentError(p) ==
  /\ Finished(p)
  /\ Show(Notice("Payment Error"))
  /\ UNCHANGED hasSimulatedPremium

\* checkNetworkStatus() settles; signedIn: whether auth.currentUser is set
PaymentNetwork(p, online, signedIn) ==
  /\ p \in BagToSet(purchases) /\ p.pc = "net"
  /\ IF ~online
       THEN /\ purchases' = Without(purchases, p)
            /\ Show(Notice("No internet connection."))
            /\ UNCHANGED <<hasSimulatedPremium, isSimulatingPurchase>>
     ELSE IF ~signedIn
       THEN PaymentError(p)
     ELSE /\ isSimulatingPurchase' = TRUE
          /\ Await(p, "intent")
          /\ UNCHANGED <<hasSimulatedPremium, alerts>>
  /\ UNCHANGED <<pbVars, stVars>>

\* fetch(STRIPE_PAYMENT_URL) settles: a response that is ok or not, or a throw
PaymentIntent(p, result) ==
  /\ p \in BagToSet(purchases) /\ p.pc = "intent"
  /\ IF result = "throw"
       THEN PaymentError(p)
       ELSE /\ Await(p, IF result = "ok" THEN "json" ELSE "errorJson")
            /\ UNCHANGED <<hasSimulatedPremium, isSimulatingPurchase, alerts>>
  /\ UNCHANGED <<pbVars, stVars>>

\* response.json() settles, of a response that is ok
PaymentJson(p, ok) ==
  /\ p \in BagToSet(purchases) /\ p.pc = "json"
  /\ IF ok
       THEN /\ Await(p, "init")
            /\ UNCHANGED <<hasSimulatedPremium, isSimulatingPurchase, alerts>>
       ELSE PaymentError(p)
  /\ UNCHANGED <<pbVars, stVars>>

\* response.json() settles, of a response that is not ok: an Error is thrown
PaymentErrorJson(p) ==
  /\ p \in BagToSet(purchases) /\ p.pc = "errorJson"
  /\ PaymentError(p)
  /\ UNCHANGED <<pbVars, stVars>>

\* initPaymentSheet settles
PaymentInit(p, ok) ==
  /\ p \in BagToSet(purchases) /\ p.pc = "init"
  /\ IF ok
       THEN /\ Await(p, "sheet")
            /\ UNCHANGED <<hasSimulatedPremium, isSimulatingPurchase, alerts>>
       ELSE PaymentError(p)
  /\ UNCHANGED <<pbVars, stVars>>

\* presentPaymentSheet settles: paid, or an error with a code
SheetResults == {"paid", "Canceled", "Failed"}

PaymentSheetAlertsCancel(p, result) ==
  /\ p \in BagToSet(purchases) /\ p.pc = "sheet"
  /\ IF result = "paid"
       THEN /\ Await(p, "confirm")
            /\ UNCHANGED <<hasSimulatedPremium, isSimulatingPurchase, alerts>>
     ELSE /\ Finished(p)
          /\ Show(Notice("Payment Failed"))
          /\ UNCHANGED hasSimulatedPremium
  /\ UNCHANGED <<pbVars, stVars>>

PaymentSheet(p, result) ==
  /\ p \in BagToSet(purchases) /\ p.pc = "sheet"
  /\ IF result = "paid"
       THEN /\ Await(p, "confirm")
            /\ UNCHANGED <<hasSimulatedPremium, isSimulatingPurchase, alerts>>
     ELSE /\ Finished(p)
          /\ IF result # "Canceled"
               THEN Show(Notice("Payment Failed"))
               ELSE UNCHANGED alerts
          /\ UNCHANGED hasSimulatedPremium
  /\ UNCHANGED <<pbVars, stVars>>

\* fetch(STRIPE_CONFIRM_URL) settles in any way: premium is unlocked
PaymentConfirmStrict(p, result) ==
  /\ p \in BagToSet(purchases) /\ p.pc = "confirm"
  /\ hasSimulatedPremium' = (hasSimulatedPremium \/ result = "ok")
  /\ Show(Alert("Premium Unlocked!", p.id, p.sel))
  /\ Finished(p)
  /\ UNCHANGED <<pbVars, stVars>>

PaymentConfirm(p, result) ==
  /\ p \in BagToSet(purchases) /\ p.pc = "confirm"
  /\ hasSimulatedPremium' = TRUE
  /\ Show(Alert("Premium Unlocked!", p.id, p.sel))
  /\ Finished(p)
  /\ UNCHANGED <<pbVars, stVars>>

\* "Great!": callbackAfterUnlock, the toggle of the render that showed the
\* "Unlock Premium" alert
PremiumGreat(a) ==
  /\ a \in BagToSet(alerts) /\ a.title = "Premium Unlocked!"
  /\ Close(a)
  /\ ToggleCall(a.sel, a.id)
  /\ UNCHANGED <<isLoading, isPinSet, pin, restrictedMode, storage,
                 lastSetPin, scrVars>>
  /\ UNCHANGED <<pbVars, hasSimulatedPremium, isSimulatingPurchase, purchases>>

\* ========================================================== specifications
\* ForYouScreen as constructed, over a settings store that loadSettings has
\* filled from an empty AsyncStorage; fa is the initial failedAttempts
PlaybackInit(fa) ==
  /\ backendLoading = TRUE /\ backendError = NULL /\ backendVideos = {}
  /\ currentlyPlaying = NULL /\ videoToPlayIntent = NULL
  /\ videoErrors = [id \in VideoIds |-> NoError]
  /\ retryAttempts = [id \in VideoIds |-> 0]
  /\ videoRefs = {}
  /\ videoStatusCache = [id \in VideoIds |-> "none"]
  /\ engine = [id \in VideoIds |-> "unloaded"]
  /\ fetchPc = "net" /\ tasks = EmptyBag /\ taps = EmptyBag
  /\ failedAttempts = fa
  /\ hasSimulatedPremium = FALSE /\ isSimulatingPurchase = FALSE
  /\ purchases = EmptyBag /\ alerts = EmptyBag
  /\ isLoading = FALSE /\ isPinSet = FALSE /\ pin = NULL
  /\ restrictedMode = FALSE /\ selectedVideos = <<>>
  /\ storage = << >> /\ ops = <<>>
  /\ toggles = [id \in VideoIds |-> 0] /\ lastSetPin = NULL
  /\ setupLoading = FALSE /\ setupAlertVisible = FALSE
  /\ attempts = 0 /\ entryAlert = "none" /\ alertMessage = <<>>
  /\ resetLoading = FALSE
  /\ route = NoRoute /\ user = "parent" /\ logoutPc = "idle"
  /\ visit = NoVisit /\ wrongGuesses = 0

\* the steps of the playback controller for the items of ids, with the
\* connectivity checks answering one of nets and the loads settling as one
\* of outcomes
PlaybackStep(ids, nets, outcomes) ==
  \/ \E online \in BOOLEAN : FetchNetwork(online)
  \/ \E ok \in BOOLEAN : FetchResult(ok)
  \/ \E id \in ids : TapStart(id)
  \/ \E t \in BagToSet(taps), online \in nets : TapContinue(t, online)
  \/ \E t \in BagToSet(tasks) : UnloadDone(t)
  \/ \E t \in BagToSet(tasks) : LoadTimeout(t)
  \/ \E t \in BagToSet(tasks), o \in outcomes : LoadResolve(t, o)
  \/ \E id \in ids : DidJustFinish(id)

\* one item of the list is used; its loads settle in every way
ItemNext ==
  \/ PlaybackStep({"v1"}, BOOLEAN, LoadOutcomes)
  \/ RetryVideo("v1")
  \/ \E t \in BagToSet(tasks), ok \in BOOLEAN : PlayResolve(t, ok)
  \/ StatusUpdate("v1")

SpecItem == PlaybackInit(NotCounted) /\ [][ItemNext]_vars

\* the same, where the engine answers every call or the timer of the
\* attempt fires
EngineAnswers ==
  \E t \in BagToSet(tasks) :
    \/ UnloadDone(t)
    \/ LoadTimeout(t)
    \/ \E o \in LoadOutcomes : LoadResolve(t, o)
    \/ \E ok \in BOOLEAN : PlayResolve(t, ok)

SpecItemFair == SpecItem /\ WF_vars(EngineAnswers)

\* the same, with the failed attempts of the item counted
SpecRetry ==
  PlaybackInit([id \in VideoIds |-> 0]) /\ [][ItemNext]_vars

\* two items are used; a load starts playing or is rejected
PlaybackNext == PlaybackStep({"v1", "v2"}, {TRUE}, {"playing", "reject"})

SpecPlayback == PlaybackInit(NotCounted) /\ [][PlaybackNext]_vars

\* one item is used, and leaves and enters the window of the list
MountNext ==
  \/ PlaybackStep({"v1"}, {TRUE}, LoadOutcomes)
  \/ ItemUnmount("v1")
  \/ ItemMount("v1")

SpecMount == PlaybackInit(NotCounted) /\ [][MountNext]_vars

\* two items are played in turn, the control that is pressed being that of
\* the item that is not the one playing: the device is online, the engine
\* answers before the timer fires, a load starts playing and no item
\* plays to its end
SwitchNext ==
  \/ FetchNetwork(TRUE)
  \/ FetchResult(TRUE)
  \/ \E id \in {"v1", "v2"} \ {currentlyPlaying} : TapStart(id)
  \/ \E t \in BagToSet(taps) : TapContinue(t, TRUE)
  \/ \E t \in BagToSet(tasks) : UnloadDone(t)
  \/ \E t \in BagToSet(tasks) : LoadResolve(t, "playing")

SpecSwitch == PlaybackInit(NotCounted) /\ [][SwitchNext]_vars

\* the same, where an item that plays may play to its end
FinishNext ==
  \/ SwitchNext
  \/ \E id \in {"v1", "v2"} : DidJustFinish(id)

SpecFinish == PlaybackInit(NotCounted) /\ [][FinishNext]_vars

\* one item is used and retried: the device is online, a load starts
\* playing or is rejected
AgainNext ==
  \/ PlaybackStep({"v1"}, {TRUE}, {"playing", "reject"})
  \/ RetryVideo("v1")

SpecAgain == PlaybackInit(NotCounted) /\ [][AgainNext]_vars

\* ------------------------------------------- the settings and the selection
\* what AsyncStorage holds when the app starts: nothing; the settings of an
\* earlier session, with restricted mode on or off; a selection whose text
\* is cut short; a PIN whose text is empty
StoredStates ==
  { [k \in {} |-> ""],
    [parentPin |-> ""],
    [parentPin |-> "1234", restrictedMode |-> "true",
     selectedVideos |-> JSONstringify(<<"v1", "v2", "v3", "v4", "v5">>)],
    [parentPin |-> "1234", restrictedMode |-> "false",
     selectedVideos |-> JSONstringify(<<"v1", "v2", "v3", "v4", "v5">>)],
    [selectedVideos |-> <<"[", "v1">>] }

\* the texts typed on the PIN screens, the items whose selection control is
\* pressed
SetupInputs == {"", "12", "1234", "5678"}
EntryInputs == {"", "1234", "5678"}
SelectIds == {"v1", "v6"}

\* the texts typed into the fields of the setup screen where its validation
\* is followed
PinFieldTexts == {"", "12", "1234", "123456", "1234567"}

\* the providers and ForYouScreen are mounted: loadSettings and fetchVideos
\* have started
SettingsInit ==
  /\ backendLoading = TRUE /\ backendError = NULL /\ backendVideos = {}
  /\ currentlyPlaying = NULL /\ videoToPlayIntent = NULL
  /\ videoErrors = [id \in VideoIds |-> NoError]
  /\ retryAttempts = [id \in VideoIds |-> 0]
  /\ videoRefs = {}
  /\ videoStatusCache = [id \in VideoIds |-> "none"]
  /\ engine = [id \in VideoIds |-> "unloaded"]
  /\ fetchPc = "net" /\ tasks = EmptyBag /\ taps = EmptyBag
  /\ failedAttempts = NotCounted
  /\ hasSimulatedPremium = FALSE /\ isSimulatingPurchase = FALSE
  /\ purchases = EmptyBag /\ alerts = EmptyBag
  /\ isLoading = TRUE /\ isPinSet = FALSE /\ pin = NULL
  /\ restrictedMode = FALSE /\ selectedVideos = <<>>
  /\ storage \in StoredStates
  /\ ops = <<Op("load", "parentPin")>>
  /\ toggles = [id \in VideoIds |-> 0] /\ lastSetPin = NULL
  /\ setupLoading = FALSE /\ setupAlertVisible = FALSE
  /\ attempts = 0 /\ entryAlert = "none" /\ alertMessage = <<>>
  /\ resetLoading = FALSE
  /\ route = NoRoute /\ user = "parent" /\ logoutPc = "idle"
  /\ visit = NoVisit /\ wrongGuesses = 0

\* loadSettings
LoadStep ==
  \/ \E ok \in BOOLEAN : LoadPin(ok)
  \/ \E ok \in BOOLEAN : LoadMode(ok)
  \/ \E ok \in BOOLEAN : LoadVideos(ok)

\* the PIN screens and the resets of the Settings screen
PinNext ==
  \/ LoadStep
  \/ \E newPin \in SetupInputs, confirmPin \in SetupInputs :
       handleSetPin(newPin, confirmPin)
  \/ \E ok \in BOOLEAN : SavePinDone(ok)
  \/ SetupAlertClose
  \/ \E enteredPin \in EntryInputs : handleVerifyPin(enteredPin)
  \/ handleAlertClose
  \/ handleResetSettings
  \/ ResetOk
  \/ handleClearAppData
  \/ ClearDataCancel
  \/ ClearDataConfirm
  \/ \E ok \in BOOLEAN : ClearDone(ok)
  \/ \E a \in BagToSet(alerts) : DismissNotice(a)

SpecPin == SettingsInit /\ [][PinNext]_vars

\* the selection of videos with its purchase, where the writes of the
\* selection resolve
SelectNext ==
  \/ LoadStep
  \/ \E a \in BagToSet(alerts) : DismissNotice(a)
  \/ \E online \in BOOLEAN : FetchNetwork(online)
  \/ \E ok \in BOOLEAN : FetchResult(ok)
  \/ \E videoId \in SelectIds : handleToggleVideoSelection(videoId)
  \/ VideosWriteDone(TRUE)
  \/ \E a \in BagToSet(alerts) : UnlockNotNow(a)
  \/ \E a \in BagToSet(alerts) : UnlockPremium(a)
  \/ \E p \in BagToSet(purchases), online \in BOOLEAN, signedIn \in BOOLEAN :
       PaymentNetwork(p, online, signedIn)
  \/ \E p \in BagToSet(purchases), r \in {"ok", "notOk", "throw"} :
       PaymentIntent(p, r)
  \/ \E p \in BagToSet(purchases), ok \in BOOLEAN : PaymentJson(p, ok)
  \/ \E p \in BagToSet(purchases) : PaymentErrorJson(p)
  \/ \E p \in BagToSet(purchases), ok \in BOOLEAN : PaymentInit(p, ok)
  \/ \E p \in BagToSet(purchases), r \in SheetResults : PaymentSheet(p, r)
  \/ \E p \in BagToSet(purchases), r \in {"ok", "notOk", "throw"} :
       PaymentConfirm(p, r)
  \/ \E a \in BagToSet(alerts) : PremiumGreat(a)

SpecSelect == SettingsInit /\ [][SelectNext]_vars

\* the toggles of the selection and of restricted mode, where a write
\* resolves or is rejected
WriteNext ==
  \/ LoadStep
  \/ toggleRestrictedMode
  \/ \E ok \in BOOLEAN : ModeWriteDone(ok)
  \/ \E online \in BOOLEAN : FetchNetwork(online)
  \/ \E ok \in BOOLEAN : FetchResult(ok)
  \/ \E videoId \in SelectIds : handleToggleVideoSelection(videoId)
  \/ \E ok \in BOOLEAN : VideosWriteDone(ok)
  \/ \E a \in BagToSet(alerts) : UnlockNotNow(a)

SpecWrite == SettingsInit /\ [][WriteNext]_vars

\* the process ends while no storage call is in flight and the app is
\* started again: every component is constructed anew, AsyncStorage is kept
Restart ==
  /\ ops = <<>> /\ ~isLoading
  /\ backendLoading' = TRUE /\ backendError' = NULL /\ backendVideos' = {}
  /\ currentlyPlaying' = NULL /\ videoToPlayIntent' = NULL
  /\ videoErrors' = [id \in VideoIds |-> NoError]
  /\ retryAttempts' = [id \in VideoIds |-> 0]
  /\ videoRefs' = {}
  /\ videoStatusCache' = [id \in VideoIds |-> "none"]
  /\ engine' = [id \in VideoIds |-> "unloaded"]
  /\ fetchPc' = "net" /\ tasks' = EmptyBag /\ taps' = EmptyBag
  /\ hasSimulatedPremium' = FALSE /\ isSimulatingPurchase' = FALSE
  /\ purchases' = EmptyBag /\ alerts' = EmptyBag
  /\ isLoading' = TRUE /\ isPinSet' = FALSE /\ pin' = NULL
  /\ restrictedMode' = FALSE /\ selectedVideos' = <<>>
  /\ ops' = <<Op("load", "parentPin")>>
  /\ toggles' = [id \in VideoIds |-> 0] /\ lastSetPin' = NULL
  /\ setupLoading' = FALSE /\ setupAlertVisible' = FALSE
  /\ attempts' = 0 /\ entryAlert' = "none" /\ alertMessage' = <<>>
  /\ resetLoading' = FALSE
  /\ route' = IF route = NoRoute THEN NoRoute ELSE <<"(tabs)">>
  /\ logoutPc' = "idle" /\ visit' = NoVisit
  /\ UNCHANGED <<user, wrongGuesses>>
  /\ UNCHANGED <<storage, failedAttempts>>

\* the store over sessions in which every call of AsyncStorage resolves: a
\* PIN is set, restricted mode and the selection are toggled, the settings
\* are reset, the app is restarted. The PIN and Settings screens are used
\* once loadSettings has ended, and the list is not reached while the
\* Settings screen waits for its reset.
StoreNext ==
  \/ LoadPin(TRUE) \/ LoadMode(TRUE) \/ LoadVideos(TRUE)
  \/ /\ ~isLoading
     /\ \E newPin \in {"1234", "5678"} : handleSetPin(newPin, newPin)
  \/ SavePinDone(TRUE)
  \/ SetupAlertClose
  \/ ~isLoading /\ toggleRestrictedMode
  \/ ModeWriteDone(TRUE)
  \/ ~isLoading /\ handleResetSettings
  \/ ResetOk
  \/ ClearDone(TRUE)
  \/ FetchNetwork(TRUE)
  \/ FetchResult(TRUE)
  \/ /\ ~resetLoading
     /\ \E videoId \in SelectIds : handleToggleVideoSelection(videoId)
  \/ VideosWriteDone(TRUE)
  \/ \E a \in BagToSet(alerts) : UnlockNotNow(a)
  \/ Restart

SpecStore == SettingsInit /\ [][StoreNext]_vars

\* the texts typed into the boxes of the entry screen where the navigation
\* is followed
EntryTexts == {"", "1234", "5678", "123456"}

\* the providers and ForYouScreen are mounted with the tabs on display, the
\* auth listener has answered with the user
EntryInit ==
  /\ backendLoading = TRUE /\ backendError = NULL /\ backendVideos = {}
  /\ currentlyPlaying = NULL /\ videoToPlayIntent = NULL
  /\ videoErrors = [id \in VideoIds |-> NoError]
  /\ retryAttempts = [id \in VideoIds |-> 0]
  /\ videoRefs = {}
  /\ videoStatusCache = [id \in VideoIds |-> "none"]
  /\ engine = [id \in VideoIds |-> "unloaded"]
  /\ fetchPc = "net" /\ tasks = EmptyBag /\ taps = EmptyBag
  /\ failedAttempts = NotCounted
  /\ hasSimulatedPremium = FALSE /\ isSimulatingPurchase = FALSE
  /\ purchases = EmptyBag /\ alerts = EmptyBag
  /\ isLoading = TRUE /\ isPinSet = FALSE /\ pin = NULL
  /\ restrictedMode = FALSE /\ selectedVideos = <<>>
  /\ storage \in StoredStates
  /\ ops = <<Op("load", "parentPin")>>
  /\ toggles = [id \in VideoIds |-> 0] /\ lastSetPin = NULL
  /\ setupLoading = FALSE /\ setupAlertVisible = FALSE
  /\ attempts = 0 /\ entryAlert = "none" /\ alertMessage = <<>>
  /\ resetLoading = FALSE
  /\ route = <<"(tabs)">> /\ user = "parent" /\ logoutPc = "idle"
  /\ visit = NoVisit /\ wrongGuesses = 0

\* the way into the settings: the Settings icon, the PIN screens and the
\* list behind them
EntryNext ==
  \/ LoadStep
  \/ \E online \in BOOLEAN : FetchNetwork(online)
  \/ \E ok \in BOOLEAN : FetchResult(ok)
  \/ SettingsButton
  \/ \E a \in BagToSet(alerts) : SetupRequiredClose(a)
  \/ \E a \in BagToSet(alerts) : SetPinNow(a)
  \/ \E newPin \in TextInput(PinFieldTexts),
        confirmPin \in TextInput(PinFieldTexts) :
       handleSetPin(newPin, confirmPin)
  \/ \E ok \in BOOLEAN : SavePinDone(ok)
  \/ SetupAlertClose
  \/ \E enteredPin \in OtpInput(EntryTexts) : handleVerifyPin(enteredPin)
  \/ handleAlertClose
  \/ PinEntryCancel
  \/ ChangePin
  \/ \E a \in BagToSet(alerts) : DismissNotice(a)

SpecEntry == EntryInit /\ [][EntryNext]_vars

\* the way out of the settings: the resets of the Settings screen, reached
\* through the PIN screens where every call of AsyncStorage but the one of
\* clearSettings resolves, and the logout of the header
LeaveNext ==
  \/ LoadPin(TRUE) \/ LoadMode(TRUE) \/ LoadVideos(TRUE)
  \/ SettingsButton
  \/ \E a \in BagToSet(alerts) : SetupRequiredClose(a)
  \/ \E a \in BagToSet(alerts) : SetPinNow(a)
  \/ handleSetPin("1234", "1234")
  \/ SavePinDone(TRUE)
  \/ SetupAlertClose
  \/ \E enteredPin \in OtpInput(EntryTexts) : handleVerifyPin(enteredPin)
  \/ handleAlertClose
  \/ handleResetSettings
  \/ ResetOk
  \/ handleClearAppData
  \/ ClearDataCancel
  \/ ClearDataConfirm
  \/ \E ok \in BOOLEAN : ClearDone(ok)
  \/ \E a \in BagToSet(alerts) : DismissNotice(a)
  \/ LogoutButton
  \/ \E ok \in BOOLEAN : SignOutDone(ok)

SpecLeave == EntryInit /\ [][LeaveNext]_vars

\* the selection of videos with its purchase over sessions: the app is
\* restarted
RenewNext ==
  \/ SelectNext
  \/ Restart

SpecRenew == SettingsInit /\ [][RenewNext]_vars

\* the purchase where "Unlock Premium" may be pressed a second time before
\* the first call has set its flag; an alert is answered while it is the
\* only one on display, the user is signed in and the backend answers
OnlyAlert(a) == alerts = SetToBag({a})

TwiceNext ==
  \/ LoadStep
  \/ FetchNetwork(TRUE)
  \/ FetchResult(TRUE)
  \/ handleToggleVideoSelection("v6")
  \/ VideosWriteDone(TRUE)
  \/ \E a \in BagToSet(alerts) : OnlyAlert(a) /\ UnlockNotNow(a)
  \/ \E a \in BagToSet(alerts) : OnlyAlert(a) /\ UnlockPremium(a)
  \/ \E a \in BagToSet(alerts) : OnlyAlert(a) /\ UnlockPremiumTwice(a)
  \/ \E p \in BagToSet(purchases), online \in BOOLEAN :
       PaymentNetwork(p, online, TRUE)
  \/ \E p \in BagToSet(purchases) : PaymentIntent(p, "ok")
  \/ \E p \in BagToSet(purchases) : PaymentJson(p, TRUE)
  \/ \E p \in BagToSet(purchases) : PaymentInit(p, TRUE)
  \/ \E p \in BagToSet(purchases), r \in SheetResults : PaymentSheet(p, r)
  \/ \E p \in BagToSet(purchases) : PaymentConfirm(p, "ok")
  \/ \E a \in BagToSet(alerts) : OnlyAlert(a) /\ PremiumGreat(a)
  \/ \E a \in BagToSet(alerts) : OnlyAlert(a) /\ DismissNotice(a)

SpecTwice == SettingsInit /\ [][TwiceNext]_vars

\* ------------------------------------------------- claims on the playback
\* C1: in every reachable state the currently playing id, if present, is not
\* a key of the error map.
C1_PlayingNotErrored ==
  currentlyPlaying # NULL => videoErrors[currentlyPlaying] = NoError

\* a step in which attempt t times out or one of its awaits settles
Settles(t) ==
  \/ LoadTimeout(t)
  \/ \E o \in LoadOutcomes : LoadResolve(t, o)
  \/ \E ok \in BOOLEAN : PlayResolve(t, ok)

\* C2: when play was requested for Y while X was pending, no outcome of X's
\* abandoned attempt records an error for X or makes X the playing item.
C2_SupersededIsSilent ==
  [][\A t \in BagToSet(tasks) :
       (t.superseded /\ Settles(t)) =>
          /\ videoErrors'[t.id] = videoErrors[t.id]
          /\ currentlyPlaying' # t.id]_vars

\* C3: there are never two different items whose engine handles are both
\* loading or playing.
C3_OneActiveHandle ==
  Cardinality({id \in VideoIds : engine[id] \in {"loading", "playing"}}) <= 1

\* C4: a success response of a load that arrives after the attempt's timeout
\* has fired is discarded: it changes neither the cached status nor the
\* playback state.
C4_LateSuccessDiscarded ==
  [][\A t \in BagToSet(tasks) :
       (t.fired /\ \E o \in {"playing", "paused"} : LoadResolve(t, o))
         => /\ videoStatusCache' = videoStatusCache
            /\ currentlyPlaying' = currentlyPlaying
            /\ videoToPlayIntent' = videoToPlayIntent
            /\ videoErrors' = videoErrors]_vars

\* C5: while the retry count of an item is 3 or more, no step is a retry of
\* that item (the Retry control is not offered), and no step resets its
\* counter, so retrying changes nothing and attempts no load.
C5_RetryIsNoOpAtCap ==
  [][\A id \in VideoIds :
       retryAttempts[id] >= MAX_RETRY_ATTEMPTS =>
          /\ ~RetryVideo(id)
          /\ retryAttempts'[id] >= MAX_RETRY_ATTEMPTS]_vars

\* an errored item shown with "Max retries reached." where a press of Retry
\* would otherwise be possible
C5_Witness ==
  \E id \in VideoIds :
    /\ retryAttempts[id] >= MAX_RETRY_ATTEMPTS /\ hasError(id)
    /\ ListShown /\ id \in videoRefs /\ Room

\* C6: after 3 failed attempts in a row on an item (the first play and the
\* retries that followed), retry is disabled for that item.
C6_RetryDisabledAfterThree ==
  \A id \in VideoIds :
    (failedAttempts[id] >= MAX_RETRY_ATTEMPTS /\ hasError(id))
      => ~canRetry(id)

\* ------------------------------------------------- claims on the settings
\* C7: the selection holds an id iff the id was toggled an odd number of
\* times, and it never holds an id twice.
C7_ToggleParity ==
  /\ \A id \in VideoIds : id \in Range(selectedVideos) <=> toggles[id] = 1
  /\ Cardinality(Range(selectedVideos)) = Len(selectedVideos)

\* C8: when the write of a toggle fails (and no other write of that key is
\* in flight), the value in memory is again the one from before the toggle.
C8_FailedWriteKeepsCommitted ==
  [][/\ (VideosWriteDone(FALSE)
         /\ \A i \in DOMAIN ops' : ops'[i].op # "setVideos")
        => selectedVideos' = Head(ops).before
     /\ (ModeWriteDone(FALSE)
         /\ \A i \in DOMAIN ops' : ops'[i].op # "setMode")
        => restrictedMode' = Head(ops).before]_vars

\* C9: savePin returns false (the setup screen reports the failure) exactly
\* when the write fails, and then pin and isPinSet are what they were; when
\* the write succeeds it returns true (the setup screen shows its success
\* alert), pin is the candidate and isPinSet is true.
C9_SavePinAllOrNothing ==
  [][\A ok \in BOOLEAN :
       SavePinDone(ok) =>
         IF ok
           THEN /\ pin' = Head(ops).arg /\ isPinSet' = TRUE
                /\ setupAlertVisible' = TRUE
                /\ alerts' = alerts
           ELSE /\ pin' = pin /\ isPinSet' = isPinSet
                /\ setupAlertVisible' = FALSE
                /\ Notice("Could not set PIN.") \in BagToSet(alerts')]_vars

\* a save of a new PIN has failed while another PIN was set
C9_Witness ==
  /\ Notice("Could not set PIN.") \in BagToSet(alerts)
  /\ pin = "1234" /\ Has(storage, "parentPin") /\ ~setupLoading

\* C10: verifyPin(x) is true iff x is the PIN that was last set with success
\* since the last clear (false for every x when there is none), and the
\* press that calls it changes nothing of the store or of the storage.
C10_VerifyPinMatchesLastSet ==
  /\ [](\A x \in EntryInputs : verifyPin(x) <=> x = lastSetPin)
  /\ [][\A x \in EntryInputs : handleVerifyPin(x) => UNCHANGED storeVars]_vars

\* a PIN saved on the setup screen has been verified on the entry screen
C10_Witness ==
  entryAlert = "Success!" /\ lastSetPin = "5678"

\* C11: isPinSet is true iff a PIN has been set with success since the last
\* clear (the PIN that loadSettings reads counts as set); a successful set
\* makes it true, a successful clear makes it false, and a failed set or a
\* failed clear leaves it as it was.
C11_PinSetSinceClear ==
  /\ [](isPinSet <=> lastSetPin # NULL)
  /\ [][/\ SavePinDone(TRUE) => isPinSet'
        /\ ClearDone(TRUE) => ~isPinSet'
        /\ (SavePinDone(FALSE) \/ ClearDone(FALSE))
             => isPinSet' = isPinSet]_vars

\* the settings have been reset and no PIN is set
C11_Witness ==
  /\ Notice("All settings have been reset.") \in BagToSet(alerts)
  /\ ~isPinSet /\ lastSetPin = NULL /\ ~Has(storage, "parentPin")

\* C12: in every state of the settings store, isPinSet is true exactly when
\* a PIN is present in memory.
C12_FlagIffPinPresent ==
  isPinSet <=> pin # NULL

\* a PIN was read by loadSettings and another one has been saved over it
C12_Witness ==
  /\ ~isLoading /\ isPinSet /\ pin = "5678"
  /\ Has(storage, "parentPin") /\ storage["parentPin"] = "5678"
  /\ restrictedMode

\* the keys of the three settings
SettingsKeys == {"parentPin", "restrictedMode", "selectedVideos"}

\* C13: when clearSettings succeeds, no PIN is set, restricted mode is off,
\* the selection is empty and storage holds none of the three entries; when
\* the removal fails, the handler that called it reports the failure and
\* the four fields and storage are what they were.
C13_ClearAllOrNothing ==
  [][\A ok \in BOOLEAN :
       ClearDone(ok) =>
         IF ok
           THEN /\ pin' = NULL /\ ~isPinSet' /\ ~restrictedMode'
                /\ selectedVideos' = <<>>
                /\ \A k \in SettingsKeys : ~Has(storage', k)
           ELSE /\ pin' = pin /\ isPinSet' = isPinSet
                /\ restrictedMode' = restrictedMode
                /\ selectedVideos' = selectedVideos
                /\ storage' = storage
                /\ \E t \in {"Failed to reset settings.",
                              "Failed to clear app data."} :
                     /\ Notice(t) \notin BagToSet(alerts)
                     /\ Notice(t) \in BagToSet(alerts')]_vars

\* a reset has failed while a PIN, restricted mode and a selection were set
C13_Witness ==
  /\ Notice("Failed to reset settings.") \in BagToSet(alerts)
  /\ isPinSet /\ restrictedMode /\ Len(selectedVideos) >= 2
  /\ \A k \in SettingsKeys : Has(storage, k)

\* a step of loadSettings that ends in its catch: a read is rejected, or the
\* text of the selection is not JSON
LoadFails ==
  \/ LoadPin(FALSE) \/ LoadMode(FALSE) \/ LoadVideos(FALSE)
  \/ /\ LoadVideos(TRUE)
     /\ Has(storage, "selectedVideos")
     /\ storage["selectedVideos"] # <<>>
     /\ ~IsJSONArray(storage["selectedVideos"])

\* C14: when loadSettings meets an entry it cannot read, it ends the loading
\* state and leaves the store with the defaults: no PIN, restricted mode
\* off, an empty selection.
C14_LoadFailsOpenToDefaults ==
  [][LoadFails =>
       /\ ~isLoading'
       /\ pin' = NULL /\ ~isPinSet'
       /\ ~restrictedMode'
       /\ selectedVideos' = <<>>]_vars

\* the settings in memory
Memory ==
  [pin |-> pin, isPinSet |-> isPinSet, restrictedMode |-> restrictedMode,
   selectedVideos |-> selectedVideos]

C16_SixthFreeSelectionDenied ==
  [][\A videoId \in VideoIds :
       (videoId \notin Range(selectedVideos)
        /\ handleToggleVideoSelection(videoId)) =>
          IF ~hasSimulatedPremium /\ Len(selectedVideos) >= MAX_FREE_SELECTIONS
            THEN /\ selectedVideos' = selectedVideos
                 /\ Len(selectedVideos') = MAX_FREE_SELECTIONS
                 /\ storage' = storage /\ ops' = ops
                 /\ Alert("Unlock Premium", videoId, selectedVideos)
                      \in BagToSet(alerts')
            ELSE /\ selectedVideos' = Append(selectedVideos, videoId)
                 /\ alerts' = alerts
                 /\ ops' = Append(ops, WriteOp("setVideos",
                                               JSONstringify(selectedVideos'),
                                               selectedVideos))]_vars

\* with premium unlocked, a sixth item follows five selected ones
C16_Witness ==
  /\ hasSimulatedPremium
  /\ selectedVideos = <<"v2", "v3", "v4", "v5", "v6", "v1">>

C18_RetryOnCurrentSelection ==
  [][\A a \in BagToSet(alerts) :
       PremiumGreat(a) =>
          /\ hasSimulatedPremium
          /\ selectedVideos' = Append(selectedVideos, a.id)]_vars

\* ------------------------------------------------- claims on the purchase
\* a step in which the purchase p fails otherwise than by the user's
\* cancellation of the payment sheet
PaymentFails(p) ==
  \/ \E signedIn \in BOOLEAN : PaymentNetwork(p, FALSE, signedIn)
  \/ PaymentNetwork(p, TRUE, FALSE)
  \/ PaymentIntent(p, "throw")
  \/ PaymentJson(p, FALSE)
  \/ PaymentErrorJson(p)
  \/ PaymentInit(p, FALSE)
  \/ PaymentSheet(p, "Failed")

\* C19: when the payment sheet ends with the code Canceled no alert is
\* shown; every other failure of the purchase shows one alert with a
\* message; in both cases premium and the selection stay as they are and
\* nothing is written.
C19_CancelIsSilent ==
  [][\A p \in BagToSet(purchases) :
       /\ PaymentSheet(p, "Canceled") =>
            /\ alerts' = alerts
            /\ hasSimulatedPremium' = hasSimulatedPremium
            /\ selectedVideos' = selectedVideos /\ ops' = ops
       /\ PaymentFails(p) =>
            /\ \E t \in {"Payment Failed", "Payment Error",
                          "No internet connection."} :
                 alerts' = alerts (+) SetToBag({Notice(t)})
            /\ hasSimulatedPremium' = hasSimulatedPremium
            /\ selectedVideos' = selectedVideos /\ ops' = ops]_vars

\* the payment sheet has failed: its message is shown, premium is locked
\* and the five items are selected
C19_Witness ==
  /\ Notice("Payment Failed") \in BagToSet(alerts)
  /\ ~hasSimulatedPremium /\ purchases = EmptyBag
  /\ Len(selectedVideos) = MAX_FREE_SELECTIONS

\* the outcomes of the confirmation request: a response that is ok, one
\* that is not, a throw
ConfirmResults == {"ok", "notOk", "throw"}

\* C20: after the payment sheet has reported the charge, premium is
\* unlocked when the confirmation request settles, whatever its outcome,
\* and no step locks premium again.
C20_GrantSurvivesConfirmFailure ==
  [][/\ \A p \in BagToSet(purchases), r \in ConfirmResults :
          PaymentConfirm(p, r) => hasSimulatedPremium'
     /\ hasSimulatedPremium => hasSimulatedPremium']_vars

\* the purchase has ended with premium unlocked and its alert shown
C20_Witness ==
  /\ hasSimulatedPremium /\ ~isSimulatingPurchase /\ purchases = EmptyBag
  /\ \E a \in BagToSet(alerts) : a.title = "Premium Unlocked!"

\* ------------------------------------------ further claims on the playback
\* C21: when the connectivity check of fetchVideos or of a play request
\* reports offline, no fetch and no load is issued and the offline error is
\* recorded; and a step starts a play attempt only when it is the
\* continuation of a connectivity check that reported online (so a retry
\* too is checked first).
C21_ConnectivityCheckedFirst ==
  [][/\ FetchNetwork(FALSE) =>
          /\ fetchPc' = "done" /\ backendError' = MsgOffline
          /\ backendVideos' = backendVideos
     /\ \A t \in BagToSet(taps) :
          TapContinue(t, FALSE) =>
            /\ tasks' = tasks /\ engine' = engine
            /\ videoErrors'[t.id] = MsgOffline
     /\ BagCardinality(tasks') > BagCardinality(tasks) =>
          \E t \in BagToSet(taps) : TapContinue(t, TRUE)]_vars

\* a step that records an error for id
ErrorRecorded(id) ==
  videoErrors'[id] # NoError /\ videoErrors'[id] # videoErrors[id]

\* C22: a step that records an error for an item leaves the errors and the
\* retry counters of the other items as they are, and leaves
\* currentlyPlaying and the pending play request as they are when they name
\* another item.
C22_ErrorScopedToItem ==
  [][\A id \in VideoIds :
       ErrorRecorded(id) =>
         /\ \A other \in VideoIds \ {id} :
              /\ videoErrors'[other] = videoErrors[other]
              /\ retryAttempts'[other] = retryAttempts[other]
         /\ currentlyPlaying \notin {NULL, id}
              => currentlyPlaying' = currentlyPlaying
         /\ videoToPlayIntent \notin {NULL, id}
              => videoToPlayIntent' = videoToPlayIntent]_vars

C24_NothingGatedBeforeLoad ==
  /\ [](isLoading => ~ListShown)
  /\ [][SettingsButton /\ isLoading /\ loadSettings(storage).isPinSet
          => alerts' = alerts]_vars

\* C25: the setup screen calls savePin only with a PIN of 4 to 6 characters
\* that equals its confirmation, and a PIN that savePin has persisted has 4
\* to 6 characters.
C25_SavedPinLength ==
  [][/\ \A newPin \in TextInput(PinFieldTexts),
          confirmPin \in TextInput(PinFieldTexts) :
          handleSetPin(newPin, confirmPin) /\ ops' # ops =>
            /\ newPin = confirmPin /\ Len(newPin) \in 4..6
            /\ ops' = Append(ops, Op("savePin", newPin))
     /\ SavePinDone(TRUE) =>
          /\ Len(storage'["parentPin"]) \in 4..6
          /\ pin' = storage'["parentPin"]]_vars

\* savePin has persisted a PIN of six characters
C25_Witness ==
  /\ Has(storage, "parentPin") /\ storage["parentPin"] = "123456"
  /\ lastSetPin = "123456" /\ pin = "123456"

C27_ThenPlayingOrErrored ==
  [][\A id \in VideoIds :
       (/\ videoToPlayIntent = id /\ videoToPlayIntent' = NULL
        /\ currentlyPlaying = id)
         => \/ hasError(id)'
            \/ currentlyPlaying' = id /\ engine'[id] = "playing"]_vars

\* the other parts of C27: where the engine answers or the timer fires, a
\* pending play request is eventually cleared
C27_PendingCleared == (videoToPlayIntent # NULL) ~> (videoToPlayIntent = NULL)

\* and while a request is pending, an attempt for its id is in flight whose
\* timer has not fired
C27_PendingOnlyInAttempt ==
  [](\A id \in VideoIds :
       videoToPlayIntent = id
         => \E t \in BagToSet(tasks) : t.id = id /\ ~t.fired)

\* the loadAsync calls on the handle of id that have not settled
LoadsInFlight(id) ==
  BagCardinality([t \in {u \in BagToSet(tasks) : u.id = id /\ u.pc = "load"}
                    |-> tasks[t]])

\* C28: at no time are two loads of the same item in flight.
C28_OneLoadPerItem == \A id \in VideoIds : LoadsInFlight(id) <= 1

\* C29: a press on the control of the item that is playing (no attempt to
\* load it is in flight), once its connectivity check has passed, pauses
\* the item if it plays and resumes it if it is paused, whether or not the
\* status of the press before has been notified.
C29_TapTogglesPause ==
  [][\A t \in BagToSet(taps) :
       (/\ TapContinue(t, TRUE)
        /\ t.cp = t.id /\ currentlyPlaying = t.id /\ t.id \in videoRefs
        /\ tasks = EmptyBag)
         => /\ engine[t.id] = "playing" => engine'[t.id] = "paused"
            /\ engine[t.id] = "paused" => engine'[t.id] = "playing"]_vars

\* C30: when the control of an item is pressed while another item is the
\* one playing, the handler (its connectivity check passed) issues the
\* pause of that item and makes the pressed item pending; whether the pause
\* takes effect or is rejected, no error is recorded on either item.
C30_PauseThenPending ==
  [][\A t \in BagToSet(taps) :
       (/\ TapContinue(t, TRUE)
        /\ t.cp \notin {NULL, t.id} /\ t.cp \in videoRefs)
         => /\ engine'[t.cp] = Pause(engine, t.cp)[t.cp]
            /\ engine'[t.cp] # "playing"
            /\ videoToPlayIntent' = t.id
            /\ videoErrors'[t.cp] = videoErrors[t.cp]
            /\ ~hasError(t.id)']_vars

\* the item that played is paused, the pressed item is pending, no item
\* has an error
C30_Witness ==
  /\ videoToPlayIntent = "v2" /\ currentlyPlaying = "v2"
  /\ engine["v1"] = "paused"
  /\ \A id \in VideoIds : ~hasError(id)

\* C31: when the item that is the one playing plays to its end, its handle
\* is unloaded and no item is the one playing; when another item plays to
\* its end, the one playing, the pending request, the errors, the retry
\* counters and the attempts in flight are unchanged.
C31_EndOfContent ==
  [][\A id \in VideoIds :
       DidJustFinish(id) =>
         IF id = currentlyPlaying
           THEN engine'[id] = "unloaded" /\ currentlyPlaying' = NULL
           ELSE UNCHANGED <<currentlyPlaying, videoToPlayIntent, videoErrors,
                            retryAttempts, tasks>>]_vars

\* the one item playing has played to its end
C31_Witness ==
  /\ currentlyPlaying = NULL /\ engine["v1"] = "unloaded"
  /\ videoStatusCache["v1"] = "paused" /\ tasks = EmptyBag
  /\ \A id \in VideoIds : ~hasError(id)

\* C32: a permitted retry of an item leaves the item without error, with
\* its retry counter at zero and as the pending play request; the errors
\* and the retry counters of the other items are unchanged.
C32_RetryFrame ==
  [][\A id \in VideoIds :
       RetryVideo(id) =>
         /\ ~hasError(id)' /\ retryAttempts'[id] = 0
         /\ videoToPlayIntent' = id
         /\ \A other \in VideoIds \ {id} :
              /\ videoErrors'[other] = videoErrors[other]
              /\ retryAttempts'[other] = retryAttempts[other]]_vars

\* the item was retried after the timer of its attempt fired
C32_Witness ==
  /\ videoToPlayIntent = "v1" /\ ~hasError("v1") /\ retryAttempts["v1"] = 0
  /\ \E t \in BagToSet(tasks) : t.id = "v1" /\ t.fired

\* C33: the retry counter of an item grows by one per failed attempt: no
\* attempt adds more than one to it, by whatever paths its failure is
\* reported.
C33_OneCountPerAttempt ==
  [][\A t \in BagToSet(tasks) :
       /\ \A o \in LoadOutcomes :
            LoadResolve(t, o) =>
              retryAttempts'[t.id] <=
                retryAttempts[t.id] + (IF t.fired THEN 0 ELSE 1)
       /\ \A ok \in BOOLEAN :
            PlayResolve(t, ok) =>
              retryAttempts'[t.id] <=
                retryAttempts[t.id] + (IF t.fired THEN 0 ELSE 1)]_vars

\* C34: while premium is not unlocked, the selection holds at most
\* MAX_FREE_SELECTIONS ids.
C34_FreeSelectionBounded ==
  ~hasSimulatedPremium => Len(selectedVideos) <= MAX_FREE_SELECTIONS

\* C35: when a call of handleStripePayment that has set the flag of the
\* purchase in progress ends, the flag is false; and while the flag is true
\* the selection does not change.
C35_PurchaseEnds ==
  [][/\ \A p \in BagToSet(purchases) :
          p.pc # "net" /\ purchases' = Without(purchases, p)
            => ~isSimulatingPurchase'
     /\ isSimulatingPurchase => selectedVideos' = selectedVideos]_vars


\* ------------------------------------------- claims on the way to Settings
\* C36: where the press of the Settings icon found a parent PIN in
\* AsyncStorage, the Settings screen is on display only once verifyPin has
\* returned true in that visit.
C36_SettingsBehindPin ==
  (OnScreen("Settings") /\ visit.persisted) => visit.verified

C38_GuessesBounded == wrongGuesses <= 3

\* C39: a PIN that the setup screen has saved is a text that the boxes of
\* the entry screen can hold, so that verifyPin returns true for an entry.
C39_SavedPinEnterable ==
  [][SavePinDone(TRUE) =>
       \E enteredPin \in OtpInput(TextInput(PinFieldTexts)) :
         enteredPin = pin']_vars

\* C40: when the clearSettings of a confirmed "Clear All App Data" has
\* resolved, the store is at its defaults, AsyncStorage holds none of its
\* keys, no user is signed in and the login screen is on display.
C40_ClearLogsOut ==
  [][(ClearDone(TRUE) /\ Head(ops).arg = "clearData") =>
       /\ pin' = NULL /\ ~isPinSet' /\ ~restrictedMode'
       /\ selectedVideos' = <<>>
       /\ DOMAIN storage' \cap SettingsKeys = {}
       /\ user' = NULL
       /\ route'[Len(route')] = "login"]_vars
====
